---- MODULE Spec2Model ----
(***************************************************************************)
(* Model of the onlyerror derive macro: Error::parse / Variant::parse      *)
(* (src/src/parser.rs) and derive_error (src/src/lib.rs).                  *)
(*                                                                         *)
(* Strings are sequences of symbols.  A symbol is one character, except    *)
(* "field_", which stands for the six characters f,i,e,l,d,_ : the code    *)
(* only ever searches for "{", "}", ":" and decimal digits, so no search   *)
(* pattern can begin or end inside that chunk.                             *)
(*                                                                         *)
(* Field names inside one variant are distinct (rustc rejects the enum     *)
(* otherwise), variant names are distinct identifiers.                     *)
(***************************************************************************)
EXTENDS Integers, Sequences, FiniteSets, TLC

VARIABLES input,     \* the derive input: the enum definition as written
          pc,        \* "parse" | "generate" | "done"
          variants,  \* Error::parse's `variants` vector (ast.variants)
          result     \* what derive_error returns: code, a diagnostic, or "none" yet

vars == <<input, pc, variants, result>>

-----------------------------------------------------------------------------
(* Bounds of the model                                                     *)

MaxLen == 3        \* templates of every length up to MaxLen are enumerated
MaxFields == 2     \* fields per variant in the marker and template families
MaxAttrs == 2      \* #[from] / #[source] attributes per field
MaxVariants == 2   \* variants per enum in the enum family

-----------------------------------------------------------------------------
(* String helpers: Rust's str and format! operations used by the code      *)

Digits == <<"0", "1", "2", "3", "4", "5", "6", "7", "8", "9">>

RECURSIVE UsizeToString(_)
UsizeToString(i) ==
    IF i < 10 THEN <<Digits[i + 1]>>
    ELSE UsizeToString(i \div 10) \o <<Digits[(i % 10) + 1]>>

IsDigit(c) == \E d \in 1..10 : Digits[d] = c

DigitVal(c) == (CHOOSE d \in 1..10 : Digits[d] = c) - 1

RECURSIVE DecimalValue(_)
DecimalValue(s) ==
    IF Len(s) = 0 THEN 0
    ELSE 10 * DecimalValue(SubSeq(s, 1, Len(s) - 1)) + DigitVal(s[Len(s)])

\* index.parse::<usize>().unwrap_or_default(): 0 unless all decimal digits
ParseUsizeOrDefault(s) ==
    IF Len(s) > 0 /\ \A i \in 1..Len(s) : IsDigit(s[i]) THEN DecimalValue(s) ELSE 0

StartsWithAt(s, i, pat) ==
    /\ i + Len(pat) - 1 <= Len(s)
    /\ \A j \in 1..Len(pat) : s[i + j - 1] = pat[j]

RECURSIVE ReplaceFrom(_, _, _, _)
ReplaceFrom(s, i, pat, to) ==
    IF i > Len(s) THEN <<>>
    ELSE IF StartsWithAt(s, i, pat)
         THEN to \o ReplaceFrom(s, i + Len(pat), pat, to)
         ELSE <<s[i]>> \o ReplaceFrom(s, i + 1, pat, to)

\* str::replace with a non-empty pattern: leftmost non-overlapping matches
Replace(s, pat, to) == ReplaceFrom(s, 1, pat, to)

RECURSIVE SplitFrom(_, _, _, _)
SplitFrom(s, i, ch, cur) ==
    IF i > Len(s) THEN <<cur>>
    ELSE IF s[i] = ch
         THEN <<cur>> \o SplitFrom(s, i + 1, ch, <<>>)
         ELSE SplitFrom(s, i + 1, ch, Append(cur, s[i]))

\* str::split(char): always at least one piece
Split(s, ch) == SplitFrom(s, 1, ch, <<>>)

RECURSIVE Join(_)
Join(ss) == IF Len(ss) = 0 THEN <<>> ELSE Head(ss) \o Join(Tail(ss))

\* format!("field_{i}")
FieldAlias(i) == <<"field_">> \o UsizeToString(i)

-----------------------------------------------------------------------------
(* Diagnostics: spanned_error(msg, span).  `arg` is the text interpolated   *)
(* into the message, <<>> when the message is fixed.                       *)

DuplicateMsg == "#[from] | #[source] can only be used once. Previously seen on field"
ArityMsg == "#[from] can only be used with a single field"
MissingDisplayMsg == "Required error message is missing"
DelimiterMsg == "Unexpected delimiter"
TrailingMsg == "Unexpected token"
LiteralMsg == "myn: string literal expected"

spanned_error(msg, arg, span) == [msg |-> msg, arg |-> arg, span |-> span]

NameSpan(name) == <<"name", name>>

-----------------------------------------------------------------------------
(* parser.rs: ErrorSource                                                  *)

SourceNone == [kind |-> "None", key |-> <<>>]
SourceFrom(key) == [kind |-> "From", key |-> key]
SourceSource(key) == [kind |-> "Source", key |-> key]

\* ErrorSource::as_ref: Some(name) for From and Source
SourceIsSome(source) == source.kind \in {"From", "Source"}

-----------------------------------------------------------------------------
(* parser.rs: OrderedMap                                                   *)

EmptyMap == [k \in {} |-> <<>>]

MapInsert(map, key, value) ==
    [k \in (DOMAIN map) \cup {key} |-> IF k = key THEN value ELSE map[k]]

OrderedMapNew == [keys |-> <<>>, map |-> EmptyMap]

OrderedMapLen(m) == Len(m.keys)

OrderedMapInsert(m, key, value) ==
    [keys |-> IF key \in DOMAIN m.map THEN m.keys ELSE Append(m.keys, key),
     map |-> MapInsert(m.map, key, value)]

\* into_iter: the (key, value) pairs in insertion order of the keys
OrderedMapIntoIter(m) == [i \in 1..Len(m.keys) |-> <<m.keys[i], m.map[m.keys[i]]>>]

-----------------------------------------------------------------------------
(* parser.rs: field lists                                                  *)

Field(f) == [attrs |-> f.attrs, path |-> f.path]

RECURSIVE parse_tuple_fields_from(_, _, _)
parse_tuple_fields_from(fs, index, fields) ==
    IF index >= Len(fs) THEN fields
    ELSE parse_tuple_fields_from(fs, index + 1,
             OrderedMapInsert(fields, UsizeToString(index), Field(fs[index + 1])))

parse_tuple_fields(fs) == parse_tuple_fields_from(fs, 0, OrderedMapNew)

RECURSIVE parse_struct_fields_from(_, _, _)
parse_struct_fields_from(fs, i, fields) ==
    IF i > Len(fs) THEN fields
    ELSE parse_struct_fields_from(fs, i + 1,
             OrderedMapInsert(fields, fs[i].ident, Field(fs[i])))

parse_struct_fields(fs) == parse_struct_fields_from(fs, 1, OrderedMapNew)

-----------------------------------------------------------------------------
(* parser.rs: Variant::parse, "Resolve error source"                       *)

IsMarker(attr) == attr.name \in {"from", "source"}

\* field.attrs.iter().filter(|attr| ["from", "source"].contains(..))
RECURSIVE MarkerAttrs(_)
MarkerAttrs(attrs) ==
    IF Len(attrs) = 0 THEN <<>>
    ELSE IF IsMarker(Head(attrs)) THEN <<Head(attrs)>> \o MarkerAttrs(Tail(attrs))
         ELSE MarkerAttrs(Tail(attrs))

\* ScanAttrs without the "De-dupe" check: a later marker replaces an earlier
RECURSIVE ScanAttrsNoDedupe(_, _, _, _, _, _)
ScanAttrsNoDedupe(attrs, j, key, source, num_fields, name) ==
    IF j > Len(attrs) THEN [ok |-> TRUE, source |-> source]
    ELSE IF attrs[j].name = "from"
         THEN IF num_fields > 1
              THEN [ok |-> FALSE, err |-> spanned_error(ArityMsg, <<>>, NameSpan(name))]
              ELSE ScanAttrsNoDedupe(attrs, j + 1, key, SourceFrom(key), num_fields, name)
    ELSE ScanAttrsNoDedupe(attrs, j + 1, key, SourceSource(key), num_fields, name)

\* ScanAttrs with the arity check made before the "De-dupe" check
RECURSIVE ScanAttrsArityFirst(_, _, _, _, _, _)
ScanAttrsArityFirst(attrs, j, key, source, num_fields, name) ==
    IF j > Len(attrs) THEN [ok |-> TRUE, source |-> source]
    ELSE IF attrs[j].name = "from" /\ num_fields > 1
         THEN [ok |-> FALSE, err |-> spanned_error(ArityMsg, <<>>, NameSpan(name))]
    ELSE IF SourceIsSome(source)
         THEN [ok |-> FALSE,
               err |-> spanned_error(DuplicateMsg, source.key, attrs[j].span)]
    ELSE IF attrs[j].name = "from"
         THEN ScanAttrsArityFirst(attrs, j + 1, key, SourceFrom(key), num_fields, name)
    ELSE ScanAttrsArityFirst(attrs, j + 1, key, SourceSource(key), num_fields, name)

\* the inner `for attr in attrs` loop over one field's marker attributes
RECURSIVE ScanAttrs(_, _, _, _, _, _)
ScanAttrs(attrs, j, key, source, num_fields, name) ==
    IF j > Len(attrs) THEN [ok |-> TRUE, source |-> source]
    ELSE IF SourceIsSome(source)
         THEN [ok |-> FALSE,
               err |-> spanned_error(DuplicateMsg, source.key, attrs[j].span)]
    ELSE IF attrs[j].name = "from"
         THEN IF num_fields > 1
              THEN [ok |-> FALSE, err |-> spanned_error(ArityMsg, <<>>, NameSpan(name))]
              ELSE ScanAttrs(attrs, j + 1, key, SourceFrom(key), num_fields, name)
    ELSE ScanAttrs(attrs, j + 1, key, SourceSource(key), num_fields, name)

\* the outer `for (key, field) in map.into_iter()` loop
RECURSIVE ScanFields(_, _, _, _, _, _)
ScanFields(pairs, i, source, fields, num_fields, name) ==
    IF i > Len(pairs) THEN [ok |-> TRUE, source |-> source, fields |-> fields]
    ELSE LET key == pairs[i][1]
             field == pairs[i][2]
             r == ScanAttrs(MarkerAttrs(field.attrs), 1, key, source,
                            num_fields, name)
         IN IF ~r.ok THEN r
            ELSE ScanFields(pairs, i + 1, r.source,
                            MapInsert(fields, key, field.path), num_fields, name)

ResolveSource(map, name) ==
    ScanFields(OrderedMapIntoIter(map), 1, SourceNone, EmptyMap,
               OrderedMapLen(map), name)

-----------------------------------------------------------------------------
(* parser.rs: Variant::parse, display template                             *)

\* attrs.iter().find_map(|attr| (attr.name == "error").then_some(attr.tree))
\*      .and_then(|tree| tree.expect_group(Delimiter::Parenthesis).ok())
ErrorAttrIndex(attrs) ==
    IF \E i \in 1..Len(attrs) : attrs[i].name = "error"
    THEN CHOOSE i \in 1..Len(attrs) :
            /\ attrs[i].name = "error"
            /\ \A j \in 1..(i - 1) : attrs[j].name # "error"
    ELSE 0

HasErrorGroup(attrs) ==
    /\ ErrorAttrIndex(attrs) > 0
    /\ attrs[ErrorAttrIndex(attrs)].form \in {"paren_lit", "paren_other"}

\* myn's get_doc_comment: the text of every #[doc = "..."] attribute, in order
RECURSIVE get_doc_comment(_)
get_doc_comment(attrs) ==
    IF Len(attrs) = 0 THEN <<>>
    ELSE IF Head(attrs).name = "doc"
         THEN <<Head(attrs).lit>> \o get_doc_comment(Tail(attrs))
         ELSE get_doc_comment(Tail(attrs))

\* one round of the `for i in 0..fields.len()` loop
ReplaceIndex(string, i) ==
    Replace(Replace(string,
                    <<"{">> \o UsizeToString(i) \o <<":">>,
                    <<"{">> \o FieldAlias(i) \o <<":">>),
            <<"{">> \o UsizeToString(i) \o <<"}">>,
            <<"{">> \o FieldAlias(i) \o <<"}">>)

RECURSIVE ReplaceFieldReferences(_, _, _)
ReplaceFieldReferences(string, i, n) ==
    IF i >= n THEN string
    ELSE ReplaceFieldReferences(ReplaceIndex(string, i), i + 1, n)

\* ResolveDisplay with the field references replaced for every variant type
ResolveDisplayAnyType(attrs, ty, fields) ==
    IF HasErrorGroup(attrs)
    THEN ReplaceFieldReferences(attrs[ErrorAttrIndex(attrs)].lit, 0,
                                Cardinality(DOMAIN fields))
    ELSE Join(get_doc_comment(attrs))

\* the `let display = ...` expression, given that as_lit / as_string succeeded
ResolveDisplay(attrs, ty, fields) ==
    IF HasErrorGroup(attrs)
    THEN LET string == attrs[ErrorAttrIndex(attrs)].lit
         IN IF ty = "Tuple"
            THEN ReplaceFieldReferences(string, 0, Cardinality(DOMAIN fields))
            ELSE string
    ELSE Join(get_doc_comment(attrs))

\* s.split('}').next() then s.split(':').next()
PlaceholderName(piece) == Head(Split(Head(Split(piece, "}")), ":"))

\* display.split('{').skip(1).filter_map(..).filter_map(..).collect()
DisplayFields(display) ==
    LET pieces == Tail(Split(display, "{"))
    IN [i \in 1..Len(pieces) |-> PlaceholderName(pieces[i])]

-----------------------------------------------------------------------------
(* parser.rs: Variant::parse                                               *)

Ok(v) == [ok |-> TRUE, v |-> v]
Err(e) == [ok |-> FALSE, err |-> e]

VariantType(group) == IF group = "paren" THEN "Tuple" ELSE "Struct"

VariantParse(vin) ==
    IF vin.group \notin {"none", "paren", "brace"}
    THEN Err(spanned_error(DelimiterMsg, <<>>, <<"group", vin.name>>))
    ELSE
    LET ty == IF vin.group = "none" THEN "Unit" ELSE VariantType(vin.group)
        map == IF vin.group = "paren" THEN parse_tuple_fields(vin.fields)
               ELSE parse_struct_fields(vin.fields)
        rs == IF vin.group = "none"
              THEN [ok |-> TRUE, source |-> SourceNone, fields |-> EmptyMap]
              ELSE ResolveSource(map, vin.name)
    IN IF ~rs.ok THEN Err(rs.err)
       ELSE IF HasErrorGroup(vin.attrs)
               /\ vin.attrs[ErrorAttrIndex(vin.attrs)].form # "paren_lit"
            THEN Err(spanned_error(LiteralMsg, <<>>,
                                   <<"attr", vin.name, ErrorAttrIndex(vin.attrs)>>))
       ELSE LET display == ResolveDisplay(vin.attrs, ty, rs.fields)
            IN Ok([name |-> vin.name,
                   ty |-> ty,
                   fields |-> rs.fields,
                   display |-> display,
                   display_fields |-> DisplayFields(display),
                   source |-> rs.source])

-----------------------------------------------------------------------------
(* parser.rs: Error::parse.  The parser under src/ builds name and         *)
(* variants; derive_error also reads ast.no_display, which is set from the *)
(* enum's #[no_display] attribute.                                         *)

ParseNoDisplay(attrs) == \E i \in 1..Len(attrs) : attrs[i] = "no_display"

Ast == [name |-> input.name,
        variants |-> variants,
        no_display |-> ParseNoDisplay(input.attrs)]

-----------------------------------------------------------------------------
(* lib.rs: derive_error, the source() match arms                           *)

NoneValue == [some |-> FALSE, of |-> <<>>]
SomeValue(binding) == [some |-> TRUE, of |-> binding]

\* TupleSourcePattern with the slots counted from one
TupleSourcePatternFromOne(v, index) ==
    LET index_num == ParseUsizeOrDefault(index)
    IN [i \in 1..Cardinality(DOMAIN v.fields) |->
            IF i = index_num THEN <<"field">> ELSE <<"_">>]

\* "Self::{name}({fields}) => Some(field)," with "field," or "_," per slot
TupleSourcePattern(v, index) ==
    LET index_num == ParseUsizeOrDefault(index)
    IN [i \in 1..Cardinality(DOMAIN v.fields) |->
            IF i - 1 = index_num THEN <<"field">> ELSE <<"_">>]

ErrorMatchArm(v) ==
    LET index == v.source.key
    IN CASE v.ty = "Unit" ->
              [variant |-> v.name, ty |-> "Unit", pattern |-> <<>>,
               rest |-> FALSE, value |-> NoneValue]
         [] v.ty = "Tuple" ->
              [variant |-> v.name, ty |-> "Tuple",
               pattern |-> TupleSourcePattern(v, index),
               rest |-> FALSE, value |-> SomeValue(<<"field">>)]
         [] v.ty = "Struct" ->
              [variant |-> v.name, ty |-> "Struct", pattern |-> <<index>>,
               rest |-> TRUE, value |-> SomeValue(index)]

RECURSIVE ErrorMatches(_)
ErrorMatches(vs) ==
    IF Len(vs) = 0 THEN <<>>
    ELSE IF SourceIsSome(Head(vs).source)
         THEN <<ErrorMatchArm(Head(vs))>> \o ErrorMatches(Tail(vs))
         ELSE ErrorMatches(Tail(vs))

-----------------------------------------------------------------------------
(* lib.rs: derive_error, the Display impl                                  *)

SeqContains(seq, x) == \E i \in 1..Len(seq) : seq[i] = x

\* "field_{i}," where display_fields contains field_{i}, "_," elsewhere
TupleDisplayPattern(v) ==
    [i \in 1..Cardinality(DOMAIN v.fields) |->
        IF SeqContains(v.display_fields, FieldAlias(i - 1))
        THEN FieldAlias(i - 1) ELSE <<"_">>]

\* the Ok(..) arm of one variant; `args` are the arguments after the template
DisplayMatchArm(v) ==
    CASE v.ty = "Unit" ->
           [variant |-> v.name, ty |-> "Unit", pattern |-> <<>>, rest |-> FALSE,
            template |-> v.display, args |-> <<>>]
      [] v.ty = "Tuple" ->
           [variant |-> v.name, ty |-> "Tuple", pattern |-> TupleDisplayPattern(v),
            rest |-> FALSE, template |-> v.display, args |-> v.display_fields]
      [] v.ty = "Struct" ->
           [variant |-> v.name, ty |-> "Struct", pattern |-> v.display_fields,
            rest |-> TRUE, template |-> v.display, args |-> v.display_fields]

\* FirstEmptyDisplay reporting the last such variant instead
LastEmptyDisplay(vs) ==
    IF \E i \in 1..Len(vs) : vs[i].display = <<>>
    THEN CHOOSE i \in 1..Len(vs) :
            /\ vs[i].display = <<>>
            /\ \A j \in (i + 1)..Len(vs) : vs[j].display # <<>>
    ELSE 0

\* the first variant whose display is empty, 0 when there is none
FirstEmptyDisplay(vs) ==
    IF \E i \in 1..Len(vs) : vs[i].display = <<>>
    THEN CHOOSE i \in 1..Len(vs) :
            /\ vs[i].display = <<>>
            /\ \A j \in 1..(i - 1) : vs[j].display # <<>>
    ELSE 0

NoDisplayImpl == [present |-> FALSE, body |-> "", arms |-> <<>>]

\* DisplayImpl without the test of ast.no_display
DisplayImplAlways(ast) ==
    LET bad == FirstEmptyDisplay(ast.variants)
    IN IF bad > 0
       THEN Err(spanned_error(MissingDisplayMsg, <<>>, NameSpan(ast.variants[bad].name)))
       ELSE LET display_matches ==
                    [i \in 1..Len(ast.variants) |-> DisplayMatchArm(ast.variants[i])]
            IN Ok([present |-> TRUE,
                   body |-> IF display_matches = <<>> THEN "Ok(())" ELSE "match self",
                   arms |-> display_matches])

\* `let display_impl = ...`: Err(diagnostic) is the early return of line 173
DisplayImpl(ast) ==
    IF ast.no_display THEN Ok(NoDisplayImpl)
    ELSE LET bad == FirstEmptyDisplay(ast.variants)
         IN IF bad > 0
            THEN Err(spanned_error(MissingDisplayMsg, <<>>,
                                   NameSpan(ast.variants[bad].name)))
            ELSE LET display_matches ==
                         [i \in 1..Len(ast.variants) |-> DisplayMatchArm(ast.variants[i])]
                 IN Ok([present |-> TRUE,
                        body |-> IF display_matches = <<>> THEN "Ok(())" ELSE "match self",
                        arms |-> display_matches])

-----------------------------------------------------------------------------
(* lib.rs: derive_error, the From impls                                    *)

FromImpl(v) ==
    LET index == v.source.key
    IN [from_ty |-> v.fields[index],
        variant |-> v.name,
        body |-> IF v.ty = "Tuple"
                 THEN [shape |-> "Tuple", field |-> <<>>, value |-> "value"]
                 ELSE [shape |-> "Struct", field |-> index, value |-> "value"]]

\* FromImpls deriving From for #[source] fields as well
RECURSIVE FromImplsForSource(_)
FromImplsForSource(vs) ==
    IF Len(vs) = 0 THEN <<>>
    ELSE IF SourceIsSome(Head(vs).source)
         THEN <<FromImpl(Head(vs))>> \o FromImplsForSource(Tail(vs))
         ELSE FromImplsForSource(Tail(vs))

RECURSIVE FromImpls(_)
FromImpls(vs) ==
    IF Len(vs) = 0 THEN <<>>
    ELSE IF Head(vs).source.kind = "From"
         THEN <<FromImpl(Head(vs))>> \o FromImpls(Tail(vs))
         ELSE FromImpls(Tail(vs))

-----------------------------------------------------------------------------
(* lib.rs: derive_error, assembling the output                             *)

\* TokenStream::from_str fails on text whose delimiters do not balance.  The
\* only symbol of the model that opens a delimiter is "(", and it reaches the
\* text unquoted only through the names of display_fields.
Unbalanced(names) == \E i \in 1..Len(names) : SeqContains(names[i], "(")

LexError(display_impl) ==
    \E i \in 1..Len(display_impl.arms) :
        \/ Unbalanced(display_impl.arms[i].pattern)
        \/ Unbalanced(display_impl.arms[i].args)

NoResult == [kind |-> "none"]
Diagnostic(e) == [kind |-> "error", err |-> e]
Code(name, error_matches, display_impl, from_impls) ==
    [kind |-> "code", name |-> name, error_matches |-> error_matches,
     display_impl |-> display_impl, from_impls |-> from_impls]

DeriveOutput(ast) ==
    LET error_matches == ErrorMatches(ast.variants)
        display_impl == DisplayImpl(ast)
        from_impls == FromImpls(ast.variants)
    IN IF ~display_impl.ok THEN Diagnostic(display_impl.err)
       ELSE IF LexError(display_impl.v)
            THEN Diagnostic(spanned_error("LexError", <<>>, <<"call_site">>))
       ELSE Code(ast.name, error_matches, display_impl.v, from_impls)

-----------------------------------------------------------------------------
(* Inputs: enum definitions as the macro receives them                     *)

SeqsUpTo(S, n) == UNION { [1..k -> S] : k \in 0..n }

VariantNames == <<"A", "B", "C", "D">>
FieldNames == <<"a", "b", "c", "d">>

DocAttr(text) == [name |-> "doc", form |-> "eq", lit |-> text]
ErrorAttr(text) == [name |-> "error", form |-> "paren_lit", lit |-> text]
ErrorAttrBare == [name |-> "error", form |-> "bare", lit |-> <<>>]
ErrorAttrNonLiteral == [name |-> "error", form |-> "paren_other", lit |-> <<>>]

DocAttrs(lines) == [i \in 1..Len(lines) |-> DocAttr(lines[i])]

\* field p (from 1) of a variant: its attribute names, in order
MkField(p, names) ==
    [attrs |-> [j \in 1..Len(names) |-> [name |-> names[j], span |-> <<p, j>>]],
     ident |-> <<FieldNames[p]>>,
     path |-> <<"T", FieldNames[p]>>]

MkFields(attrLists) == [p \in 1..Len(attrLists) |-> MkField(p, attrLists[p])]

\* a variant before it is given its name
MkVariant(attrs, group, attrLists) ==
    [attrs |-> attrs, group |-> group, fields |-> MkFields(attrLists)]

\* the i-th variant of an enum: its name, and the places of its attributes
Named(v, i) ==
    [name |-> VariantNames[i], attrs |-> v.attrs, group |-> v.group,
     fields |-> [p \in 1..Len(v.fields) |->
                    [attrs |-> [j \in 1..Len(v.fields[p].attrs) |->
                                   [name |-> v.fields[p].attrs[j].name,
                                    span |-> <<"attr", VariantNames[i], p, j>>]],
                     ident |-> v.fields[p].ident,
                     path |-> v.fields[p].path]]]

MkEnum(attrs, vs, trailing) ==
    [name |-> "E", attrs |-> attrs,
     variants |-> [i \in 1..Len(vs) |-> Named(vs[i], i)],
     trailing |-> trailing]

Plain(n) == [p \in 1..n |-> <<>>]

\* Family 1: one variant, every placement of #[from] / #[source] on its fields
MarkerLists == SeqsUpTo({"from", "source"}, MaxAttrs)

MarkerVariants ==
    { MkVariant(DocAttrs(<< <<"x">> >>), g, al) :
        g \in {"paren", "brace"}, al \in SeqsUpTo(MarkerLists, MaxFields) }

\* Family 2: one variant without markers, every short template
Alphabet == {"{", "}", ":", "0", "a"}

ExampleTemplates ==
    { <<"{", "0", "}", "x", "{", "1", ":", "?", "}">>,       \* "{0} then {1:?}"
      <<"{", "{", "0", "}", "}">>,                           \* "{{0}}"
      <<"{", "{", "{", "0", "}", "}", "}">>,                 \* "{{{0}}}"
      <<"{", "0", ":", "?", "}">>,                           \* "{0:?}"
      <<"{", "1", "}", "{", "0", "}">>,                      \* "{1}{0}"
      <<"{", "1", "}">>,                                     \* "{1}"
      <<"{", "0", "}">>,                                     \* "{0}"
      <<"{", "1", ":", "?", "}", "{", "{", "1", "}", "}">>,  \* "{1:?}{{1}}"
      <<"{", "0", "}", "{", "0", "}">>,                      \* "{0}{0}"
      <<"{", "a", "}", "{", "a", "}">>,                      \* "{a}{a}"
      <<"{", "a", "}", "x", "{", "b", ":", "?", "}">>,       \* "{a} and {b:?}"
      <<"{", "field_", "0", "}">>,                           \* "{field_0}"
      <<"{", "{", "a", "}", "}">>,                           \* "{{a}}"
      <<"x", "{", "0", "}", "x">> }                          \* "Second with {0}."

Templates == SeqsUpTo(Alphabet, MaxLen) \cup ExampleTemplates

DocChoices ==
    { <<>>,
      << <<"x">> >>,
      << <<"x">>, <<"{", "0", "}">> >>,
      << <<"{", "0", "}">>, <<"x">> >> }

Shapes ==
    {<<"none", 0>>} \cup { <<g, n>> : g \in {"paren", "brace"}, n \in 0..MaxFields }

TemplateVariants ==
    { MkVariant(<<ErrorAttr(t)>>, sh[1], Plain(sh[2])) : t \in Templates, sh \in Shapes }
    \cup
    { MkVariant(DocAttrs(docs) \o <<ErrorAttr(t)>>, sh[1], Plain(sh[2])) :
        docs \in DocChoices, t \in ExampleTemplates, sh \in Shapes }
    \cup
    { MkVariant(DocAttrs(docs) \o e, sh[1], Plain(sh[2])) :
        docs \in DocChoices, e \in {<<>>, <<ErrorAttrBare>>}, sh \in Shapes }

\* Family 3: enums of several variants, built from the variants of the
\* crate's documentation, example and compile tests, and a few more
GenVariants ==
    { \* Io(#[from] std::io::Error), with a doc comment
      MkVariant(DocAttrs(<< <<"x">> >>), "paren", << <<"from">> >>),
      \* #[error("Login error. Server message: `{0}`.")] LoginError(String)
      MkVariant(DocAttrs(<< <<"x">> >>) \o <<ErrorAttr(<<"x", "{", "0", "}", "x">>)>>,
                "paren", Plain(1)),
      \* #[error("Third with {key} and {value:?}")] Third { key, value }
      MkVariant(<<ErrorAttr(<<"x", "{", "a", "}", "x", "{", "b", ":", "?", "}">>)>>,
                "brace", Plain(2)),
      \* /// Unknown.   Unknown
      MkVariant(DocAttrs(<< <<"x">> >>), "none", <<>>),
      \* #[error("I/O error: {ctx}.")] IoContext { /// .. #[source] source, /// .. ctx }
      MkVariant(DocAttrs(<< <<"x">> >>) \o <<ErrorAttr(<<"x", "{", "b", "}", "x">>)>>,
                "brace", << <<"doc", "source">>, <<"doc">> >>),
      \* First, Second(usize), Third { key, value } without any message
      MkVariant(<<>>, "none", <<>>),
      MkVariant(<<>>, "paren", Plain(1)),
      MkVariant(<<>>, "brace", Plain(2)),
      \* Pair(A, #[source] B)
      MkVariant(DocAttrs(<< <<"x">> >>), "paren", << <<>>, <<"source">> >>),
      \* Wrap { #[from] a: A }
      MkVariant(DocAttrs(<< <<"x">> >>), "brace", << <<"from">> >>),
      \* #[error("{a}{a}")] Twice { a: A }
      MkVariant(<<ErrorAttr(<<"{", "a", "}", "{", "a", "}">>)>>, "brace", Plain(1)),
      \* #[error("{1}")] Second(A, B)
      MkVariant(<<ErrorAttr(<<"{", "1", "}">>)>>, "paren", Plain(2)),
      \* #[error("{a(}")] Odd { a: A }
      MkVariant(<<ErrorAttr(<<"{", "a", "(", "}">>)>>, "brace", Plain(1)),
      \* Bad[A]
      MkVariant(DocAttrs(<< <<"x">> >>), "bracket", Plain(1)),
      \* #[error(42)] Number
      MkVariant(<<ErrorAttrNonLiteral>>, "none", <<>>) }

Inputs ==
    { MkEnum(<<>>, <<v>>, FALSE) : v \in MarkerVariants \cup TemplateVariants }
    \cup
    { MkEnum(attrs, vs, FALSE) :
        attrs \in {<<>>, <<"no_display">>}, vs \in SeqsUpTo(GenVariants, MaxVariants) }
    \cup
    { MkEnum(attrs, vs, TRUE) :
        attrs \in {<<>>, <<"no_display">>}, vs \in SeqsUpTo(GenVariants, 1) }

-----------------------------------------------------------------------------
(* The macro as a state machine                                            *)

Init ==
    /\ input \in Inputs
    /\ pc = "parse"
    /\ variants = <<>>
    /\ result = NoResult

\* Error::parse: one round of `while content.peek().is_some()`
ParseVariant ==
    /\ pc = "parse"
    /\ Len(variants) < Len(input.variants)
    /\ LET r == VariantParse(input.variants[Len(variants) + 1])
       IN IF r.ok
          THEN /\ variants' = Append(variants, r.v)
               /\ UNCHANGED <<pc, result>>
          ELSE /\ result' = Diagnostic(r.err)
               /\ pc' = "done"
               /\ UNCHANGED variants
    /\ UNCHANGED input

\* Error::parse: `match input.next()` once the variants are consumed
ParseEnd ==
    /\ pc = "parse"
    /\ Len(variants) = Len(input.variants)
    /\ IF input.trailing
       THEN /\ result' = Diagnostic(spanned_error(TrailingMsg, <<>>, <<"trailing">>))
            /\ pc' = "done"
       ELSE /\ pc' = "generate"
            /\ UNCHANGED result
    /\ UNCHANGED <<input, variants>>

\* derive_error after Error::parse returned Ok(ast)
Generate ==
    /\ pc = "generate"
    /\ result' = DeriveOutput(Ast)
    /\ pc' = "done"
    /\ UNCHANGED <<input, variants>>

Next == ParseVariant \/ ParseEnd \/ Generate

Spec == Init /\ [][Next]_vars

-----------------------------------------------------------------------------
(* Vocabulary of the properties                                            *)

\* Variant::parse has returned Ok for the i-th variant: variants[i] is its result
ParsedOk(i) == i <= Len(variants)

\* Variant::parse has returned Err for the i-th variant: result is its diagnostic
ParseFailed(i) ==
    /\ pc = "done"
    /\ result.kind = "error"
    /\ i = Len(variants) + 1
    /\ i <= Len(input.variants)

Parsed(i) == ParsedOk(i) \/ ParseFailed(i)

\* Error::parse returned Ok and derive_error has finished
Derived == pc = "done" /\ Len(variants) = Len(input.variants) /\ ~input.trailing

\* the key of the p-th declared field of an input variant
DeclaredKey(vin, p) ==
    IF vin.group = "paren" THEN UsizeToString(p - 1) ELSE vin.fields[p].ident

\* the #[from] / #[source] attributes of an input variant in declaration order
RECURSIVE MarkersFrom(_, _, _)
MarkersFrom(vin, p, j) ==
    IF p > Len(vin.fields) THEN <<>>
    ELSE IF j > Len(vin.fields[p].attrs) THEN MarkersFrom(vin, p + 1, 1)
    ELSE IF vin.fields[p].attrs[j].name \in {"from", "source"}
         THEN << [name |-> vin.fields[p].attrs[j].name,
                  span |-> vin.fields[p].attrs[j].span,
                  field |-> p] >> \o MarkersFrom(vin, p, j + 1)
    ELSE MarkersFrom(vin, p, j + 1)

Markers(vin) == IF vin.group \in {"paren", "brace"} THEN MarkersFrom(vin, 1, 1) ELSE <<>>

HasFrom(vin) == \E k \in 1..Len(Markers(vin)) : Markers(vin)[k].name = "from"

IsDuplicateAtSecond(vin) ==
    /\ result.err.msg = DuplicateMsg
    /\ result.err.span = Markers(vin)[2].span
    /\ result.err.arg = DeclaredKey(vin, Markers(vin)[1].field)

IsArityAtName(vin) ==
    /\ result.err.msg = ArityMsg
    /\ result.err.span = NameSpan(vin.name)

ArityFirst(vin) ==
    /\ Len(vin.fields) > 1
    /\ Len(Markers(vin)) > 0
    /\ Markers(vin)[1].name = "from"

-----------------------------------------------------------------------------
(* C3 *)

\* C3 as stated: every variant in which #[from] / #[source] occurs more than
\* once fails with the duplicate-marker diagnostic, placed at the second
\* marker and naming the field of the first; so a parsed variant has at most
\* one marker.
C3_DuplicateAlways ==
    \A i \in 1..Len(input.variants) :
        LET vin == input.variants[i]
        IN Parsed(i) /\ Len(Markers(vin)) > 1
              => ParseFailed(i) /\ IsDuplicateAtSecond(vin)

\* C3 amended: such a variant always fails; the diagnostic is the
\* duplicate-marker one (at the second marker, naming the first marker's
\* field) unless the first marker is #[from] on a variant of more than one
\* field, where it is the arity diagnostic at the variant's name.  A parsed
\* variant has at most one marker, and the marker it records is that one.
C3_DuplicateUnlessArityFirst ==
    \A i \in 1..Len(input.variants) :
        LET vin == input.variants[i]
        IN /\ Parsed(i) /\ Len(Markers(vin)) > 1
                => /\ ParseFailed(i)
                   /\ IF ArityFirst(vin) THEN IsArityAtName(vin)
                      ELSE IsDuplicateAtSecond(vin)
           /\ ParsedOk(i)
                => /\ Len(Markers(vin)) <= 1
                   /\ (Len(Markers(vin)) = 0) = (variants[i].source.kind = "None")

\* a variant with #[source] twice on the same field was refused as a duplicate
C3_Witness ==
    \E i \in 1..Len(input.variants) :
        LET vin == input.variants[i]
        IN /\ ParseFailed(i)
           /\ Len(Markers(vin)) = 2
           /\ Markers(vin)[1].field = Markers(vin)[2].field
           /\ Markers(vin)[1].name = "source"
           /\ IsDuplicateAtSecond(vin)

-----------------------------------------------------------------------------
(* C4 *)

\* C4 as stated: every variant of more than one field that carries #[from]
\* anywhere fails with the arity diagnostic at the variant's name.
C4_ArityAlways ==
    \A i \in 1..Len(input.variants) :
        LET vin == input.variants[i]
        IN Parsed(i) /\ Len(vin.fields) > 1 /\ HasFrom(vin)
              => ParseFailed(i) /\ IsArityAtName(vin)

\* C4 amended: such a variant always fails; with the arity diagnostic at the
\* variant's name when #[from] is its first marker in declaration order, and
\* with the duplicate-marker diagnostic at the second marker when another
\* marker comes before the #[from].
C4_ArityWhenFromFirst ==
    \A i \in 1..Len(input.variants) :
        LET vin == input.variants[i]
        IN Parsed(i) /\ Len(vin.fields) > 1 /\ HasFrom(vin)
              => /\ ParseFailed(i)
                 /\ IF Markers(vin)[1].name = "from" THEN IsArityAtName(vin)
                    ELSE IsDuplicateAtSecond(vin)

\* a two-field variant whose only marker is #[from] on its last field was
\* refused with the arity diagnostic
C4_Witness ==
    \E i \in 1..Len(input.variants) :
        LET vin == input.variants[i]
        IN /\ ParseFailed(i)
           /\ Len(vin.fields) = 2
           /\ Len(Markers(vin)) = 1
           /\ Markers(vin)[1].name = "from"
           /\ Markers(vin)[1].field = 2
           /\ IsArityAtName(vin)

-----------------------------------------------------------------------------
(* C1, C2 *)

MarkedNoDisplay == \E k \in 1..Len(input.attrs) : input.attrs[k] = "no_display"

EmptyDisplayAt(i) == variants[i].display = <<>>

\* the input variant carries neither an #[error] attribute nor a doc comment
NoMessageWritten(vin) == \A k \in 1..Len(vin.attrs) : vin.attrs[k].name \notin {"error", "doc"}

\* C1: an enum that is not marked no_display and has a variant with an empty
\* display template yields the "Required error message is missing"
\* diagnostic, at the name of the first such variant, and no code.
C1_MissingDisplayMessage ==
    \A i \in 1..Len(variants) :
        ( /\ Derived
          /\ ~MarkedNoDisplay
          /\ EmptyDisplayAt(i)
          /\ \A j \in 1..(i - 1) : ~EmptyDisplayAt(j) )
        => /\ result.kind = "error"
           /\ result.err.msg = MissingDisplayMsg
           /\ result.err.span = NameSpan(input.variants[i].name)

\* the second of two variants has no message, the first has one: the
\* diagnostic names the second
C1_Witness ==
    /\ Derived
    /\ ~MarkedNoDisplay
    /\ Len(variants) = 2
    /\ ~EmptyDisplayAt(1)
    /\ NoMessageWritten(input.variants[2])
    /\ EmptyDisplayAt(2)
    /\ result.kind = "error"
    /\ result.err.span = NameSpan(input.variants[2].name)

CountWhere(n, P(_)) == Cardinality({ k \in 1..n : P(k) })

IsFromVariant(k) == variants[k].source.kind = "From"
IsMarkedVariant(k) == variants[k].source.kind # "None"

\* C2: for an enum marked no_display derive_error never reports a missing
\* message; it emits the Error impl and the From impls and no Display impl,
\* whatever messages the variants have.
C2_NoDisplay ==
    MarkedNoDisplay =>
        /\ pc = "done" /\ result.kind = "error" => result.err.msg # MissingDisplayMsg
        /\ Derived =>
              /\ result.kind = "code"
              /\ ~result.display_impl.present
              /\ result.display_impl.arms = <<>>
              /\ Len(result.error_matches) = CountWhere(Len(variants), IsMarkedVariant)
              /\ Len(result.from_impls) = CountWhere(Len(variants), IsFromVariant)

\* a no_display enum with a message-less variant and a #[from] variant
\* produced code with one From impl and no Display impl
C2_Witness ==
    /\ Derived
    /\ MarkedNoDisplay
    /\ Len(variants) = 2
    /\ NoMessageWritten(input.variants[1])
    /\ EmptyDisplayAt(1)
    /\ IsFromVariant(2)
    /\ result.kind = "code"
    /\ Len(result.from_impls) = 1
    /\ ~result.display_impl.present

-----------------------------------------------------------------------------
(* C5, C6 *)

\* the declared field of input variant i that carries its single marker
MarkedField(i) == Markers(input.variants[i])[1].field

\* C5: source() has one arm per variant with a From or Source marker, in
\* declaration order, and none for the others.  A Tuple arm has one slot per
\* field, the binding `field` at the marked index and `_` elsewhere, and
\* returns Some(field); a Struct arm binds the marked field by name and
\* returns Some of it.
C5_SourceArms ==
    Derived /\ result.kind = "code" =>
        /\ Len(result.error_matches) = CountWhere(Len(variants), IsMarkedVariant)
        /\ \A i \in 1..Len(variants) :
              IsMarkedVariant(i) =>
                 LET arm == result.error_matches[CountWhere(i, IsMarkedVariant)]
                     vin == input.variants[i]
                 IN /\ arm.variant = vin.name
                    /\ arm.value.some
                    /\ vin.group = "paren" =>
                          /\ arm.ty = "Tuple"
                          /\ Len(arm.pattern) = Len(vin.fields)
                          /\ \A q \in 1..Len(vin.fields) :
                                arm.pattern[q] =
                                    IF q = MarkedField(i) THEN <<"field">> ELSE <<"_">>
                          /\ ~arm.rest
                          /\ arm.value.of = <<"field">>
                    /\ vin.group = "brace" =>
                          /\ arm.ty = "Struct"
                          /\ arm.pattern = <<vin.fields[MarkedField(i)].ident>>
                          /\ arm.rest
                          /\ arm.value.of = vin.fields[MarkedField(i)].ident

\* a two-field Tuple variant with #[source] on its second field got the arm
\* (_, field) => Some(field)
C5_Witness ==
    /\ Derived
    /\ result.kind = "code"
    /\ \E i \in 1..Len(variants) :
          /\ variants[i].ty = "Tuple"
          /\ variants[i].source = SourceSource(<<"1">>)
          /\ Len(input.variants[i].fields) = 2
          /\ result.error_matches[CountWhere(i, IsMarkedVariant)].pattern
                = << <<"_">>, <<"field">> >>

-----------------------------------------------------------------------------
(* Format strings as std::fmt reads them: "{{" and "}}" are literal braces, *)
(* "{" name [":" spec] "}" is a placeholder.  Used to state C7 to C10.     *)

FirstAtOrAfter(t, i, ch) ==
    IF \E j \in i..Len(t) : t[j] = ch
    THEN CHOOSE j \in i..Len(t) : t[j] = ch /\ \A k \in i..(j - 1) : t[k] # ch
    ELSE 0

\* the positional index a placeholder name denotes, -1 when it is no index
\* below n
PositionalIndex(name, n) ==
    IF \E q \in 0..(n - 1) : name = UsizeToString(q)
    THEN CHOOSE q \in 0..(n - 1) : name = UsizeToString(q)
    ELSE -1

RenamePositional(name, n) ==
    IF PositionalIndex(name, n) >= 0 THEN FieldAlias(PositionalIndex(name, n)) ELSE name

\* reads t from position i; `out` is t with the positional placeholders below
\* n renamed, `names` the placeholder names of `out` from left to right
RECURSIVE FmtScan(_, _, _)
FmtScan(t, i, n) ==
    IF i > Len(t) THEN [ok |-> TRUE, out |-> <<>>, names |-> <<>>]
    ELSE IF t[i] \in {"{", "}"} /\ i < Len(t) /\ t[i + 1] = t[i]
         THEN LET r == FmtScan(t, i + 2, n)
              IN [ok |-> r.ok, out |-> <<t[i], t[i]>> \o r.out, names |-> r.names]
    ELSE IF t[i] = "}" THEN [ok |-> FALSE, out |-> <<>>, names |-> <<>>]
    ELSE IF t[i] = "{"
         THEN LET close == FirstAtOrAfter(t, i + 1, "}")
              IN IF close = 0 \/ \E k \in (i + 1)..(close - 1) : t[k] = "{"
                 THEN [ok |-> FALSE, out |-> <<>>, names |-> <<>>]
                 ELSE LET colon == FirstAtOrAfter(SubSeq(t, 1, close - 1), i + 1, ":")
                          stop == IF colon = 0 THEN close ELSE colon
                          name == SubSeq(t, i + 1, stop - 1)
                          renamed == RenamePositional(name, n)
                          r == FmtScan(t, close + 1, n)
                      IN [ok |-> r.ok,
                          out |-> <<"{">> \o renamed \o SubSeq(t, stop, close) \o r.out,
                          names |-> <<renamed>> \o r.names]
    ELSE LET r == FmtScan(t, i + 1, n)
         IN [ok |-> r.ok, out |-> <<t[i]>> \o r.out, names |-> r.names]

WellFormed(t) == FmtScan(t, 1, 0).ok

\* the #[error("...")] literal of an input variant, when its first #[error]
\* attribute has that form
HasLiteral(vin) ==
    \E k \in 1..Len(vin.attrs) :
        /\ vin.attrs[k].name = "error"
        /\ vin.attrs[k].form = "paren_lit"
        /\ \A j \in 1..(k - 1) : vin.attrs[j].name # "error"

Literal(vin) ==
    vin.attrs[CHOOSE k \in 1..Len(vin.attrs) :
                 vin.attrs[k].name = "error" /\ vin.attrs[k].form = "paren_lit"].lit

IsAliasBelow(name, n) == \E q \in 0..(n - 1) : name = FieldAlias(q)

RECURSIVE AliasesOf(_, _)
AliasesOf(names, n) ==
    IF Len(names) = 0 THEN <<>>
    ELSE IF IsAliasBelow(Head(names), n) THEN <<Head(names)>> \o AliasesOf(Tail(names), n)
         ELSE AliasesOf(Tail(names), n)

-----------------------------------------------------------------------------
(* C7 *)

\* C7: in the template of a Tuple variant with n fields every positional
\* placeholder {i} / {i:spec}, i < n, becomes {field_i} / {field_i:spec} and
\* nothing else changes; display_fields lists those names in the template's
\* order; templates of Struct and Unit variants are stored as written.
\* Stated for literals that are well-formed format strings.
C7_PositionalRewrite ==
    \A i \in 1..Len(variants) :
        LET vin == input.variants[i]
            n == Len(vin.fields)
        IN HasLiteral(vin) /\ WellFormed(Literal(vin)) =>
              IF vin.group = "paren"
              THEN /\ variants[i].display = FmtScan(Literal(vin), 1, n).out
                   /\ AliasesOf(variants[i].display_fields, n)
                         = AliasesOf(FmtScan(Literal(vin), 1, n).names, n)
              ELSE variants[i].display = Literal(vin)

-----------------------------------------------------------------------------
(* C8 *)

\* the doc-comment lines of an input variant joined in source order
RECURSIVE DocText(_, _)
DocText(attrs, k) ==
    IF k > Len(attrs) THEN <<>>
    ELSE (IF attrs[k].name = "doc" THEN attrs[k].lit ELSE <<>>) \o DocText(attrs, k + 1)

\* t contains "{i}" or "{i:" for some i below n
HasPositional(t, n) ==
    \E q \in 0..(n - 1) :
        \E k \in 1..Len(t) :
            /\ k + 2 <= Len(t)
            /\ t[k] = "{"
            /\ <<t[k + 1]>> = UsizeToString(q)
            /\ t[k + 2] \in {":", "}"}

RECURSIVE WithoutAlias(_)
WithoutAlias(t) ==
    IF Len(t) = 0 THEN <<>>
    ELSE (IF Head(t) = "field_" THEN <<>> ELSE <<Head(t)>>) \o WithoutAlias(Tail(t))

\* C8 as stated: the template is the #[error("...")] literal when there is
\* one, else the doc-comment lines joined in order (empty when none).
\* Stated for literals that are well-formed format strings.
C8_LiteralVerbatim ==
    \A i \in 1..Len(variants) :
        LET vin == input.variants[i]
        IN IF HasLiteral(vin)
           THEN WellFormed(Literal(vin)) => variants[i].display = Literal(vin)
           ELSE variants[i].display = DocText(vin.attrs, 1)

\* C8 amended: as stated, except that for a Tuple variant whose literal
\* contains {i} or {i: for an i below its number of fields the template is
\* the literal with field_ put after the "{" of those occurrences.
C8_LiteralUnlessPositional ==
    \A i \in 1..Len(variants) :
        LET vin == input.variants[i]
            n == Len(vin.fields)
            display == variants[i].display
        IN IF ~HasLiteral(vin) THEN display = DocText(vin.attrs, 1)
           ELSE IF vin.group = "paren" /\ HasPositional(Literal(vin), n)
                THEN /\ display # Literal(vin)
                     /\ WithoutAlias(display) = WithoutAlias(Literal(vin))
                     /\ ~HasPositional(display, n)
                     /\ Len(display) - Len(Literal(vin))
                           = Cardinality({ k \in 1..Len(Literal(vin)) :
                                 /\ k + 2 <= Len(Literal(vin))
                                 /\ Literal(vin)[k] = "{"
                                 /\ PositionalIndex(<<Literal(vin)[k + 1]>>, n) >= 0
                                 /\ Literal(vin)[k + 2] \in {":", "}"} })
                ELSE display = Literal(vin)

\* a Struct variant with doc comments and the literal "{0}" stores "{0}"
C8_Witness ==
    \E i \in 1..Len(variants) :
        LET vin == input.variants[i]
        IN /\ vin.group = "brace"
           /\ Len(vin.fields) = 1
           /\ HasLiteral(vin)
           /\ Literal(vin) = <<"{", "0", "}">>
           /\ DocText(vin.attrs, 1) # <<>>
           /\ variants[i].display = <<"{", "0", "}">>

-----------------------------------------------------------------------------
(* C10 *)

RefersToField(v, name) ==
    CASE v.ty = "Struct" -> name \in DOMAIN v.fields
      [] v.ty = "Tuple" -> IsAliasBelow(name, Cardinality(DOMAIN v.fields))
      [] v.ty = "Unit" -> FALSE

AllReferToFields(v) ==
    \A k \in 1..Len(v.display_fields) : RefersToField(v, v.display_fields[k])

\* C10: every name in the display_fields of a parsed variant is a field of
\* that variant: a field name (Struct), field_i with i below the number of
\* fields (Tuple), nothing (Unit).  Stated for literals that are well-formed
\* format strings whose placeholders all name fields of the variant.
C10_DisplayFieldsExist ==
    \A i \in 1..Len(variants) :
        LET vin == input.variants[i]
            names == FmtScan(Literal(vin), 1, Len(vin.fields)).names
        IN ( /\ HasLiteral(vin)
             /\ WellFormed(Literal(vin))
             /\ \A k \in 1..Len(names) : RefersToField(variants[i], names[k]) )
           => AllReferToFields(variants[i])

-----------------------------------------------------------------------------
(* C9 *)

NoRepeats(seq) == \A k, l \in 1..Len(seq) : seq[k] = seq[l] => k = l

\* C9: the Display impl has one arm per variant, in declaration order.  A
\* Struct arm lists each referenced field once, then `..`; a Tuple arm has
\* one slot per field, field_i at the referenced indices and `_` elsewhere; a
\* Unit arm binds nothing; the arguments after the template are those
\* bindings in the template's placeholder order.  Stated for enums in which
\* every name of display_fields is a field of its variant.
C9_DisplayArms ==
    ( /\ Derived
      /\ result.kind = "code"
      /\ result.display_impl.present
      /\ \A i \in 1..Len(variants) : AllReferToFields(variants[i]) )
    => /\ Len(result.display_impl.arms) = Len(variants)
       /\ \A i \in 1..Len(variants) :
             LET arm == result.display_impl.arms[i]
                 v == variants[i]
                 n == Len(input.variants[i].fields)
             IN /\ arm.variant = v.name
                /\ arm.template = v.display
                /\ arm.args = v.display_fields
                /\ v.ty = "Unit" => arm.pattern = <<>>
                /\ v.ty = "Tuple" =>
                      /\ Len(arm.pattern) = n
                      /\ \A q \in 1..n :
                            arm.pattern[q] =
                                IF SeqContains(v.display_fields, FieldAlias(q - 1))
                                THEN FieldAlias(q - 1) ELSE <<"_">>
                /\ v.ty = "Struct" =>
                      /\ arm.rest
                      /\ NoRepeats(arm.pattern)
                      /\ { arm.pattern[k] : k \in 1..Len(arm.pattern) }
                            = { v.display_fields[k] : k \in 1..Len(v.display_fields) }

====
